---- MODULE Spec2Model ----
(***************************************************************************)
(* The two notebooks of lesson2.ipynb (pipe: 2D plane strain analysis of a *)
(* pipe with a mesh convergence sweep; plate: parametric plate with        *)
(* holes) as scripts that drive one MAPDL session through the client       *)
(* handle `mapdl`.  A remote command is issued, is outstanding while the   *)
(* call blocks, and then completes or raises.  The solver is modelled only *)
(* by what the scripts rely on: the processor that is active, the current  *)
(* selection, the commands applied to the database since the last clear(), *)
(* and the model that was solved.                                          *)
(*                                                                         *)
(* Numbers: lengths of the plate in mm (LENGTH = 5 m = 5000), Poisson      *)
(* ratios in 1/100, element sizes in 1/1000, stresses in 1/100 MPa.        *)
(***************************************************************************)
EXTENDS Integers, Sequences, FiniteSets, TLC

VARIABLES
  nb,           \* the notebook that runs: "pipe", "plate"; "fn": one bare call
  NUM,          \* plate: the number of holes
  pc,           \* "script", "for", "fn", "append_dof", "append_stress",
                \* "print", "plot", "done", "halted"
  ip,           \* index of the next command of the notebook's cells
  fp,           \* index of the next command of pipe_plane_strain
  iter,         \* sweep: index into esizes (0 before the sweep cell)
  waiting,      \* the script is blocked in a client call
  g,            \* module-level parameters of the pipe notebook
  a,            \* arguments of the current invocation of pipe_plane_strain
  loc,          \* locals of pipe_plane_strain: max_eqv_stress, all_dof.size
  ret,          \* dof, eqv_stress of the driver
  num_dof, max_stress,  \* the result lists of the driver
  printed,      \* the lines printed by the driver
  mapdl,        \* the session handle (0: none)
  live,         \* the solver processes that run
  nlaunch,      \* number of sessions launched
  outstanding,  \* indices in log of the commands in flight
  ndone,        \* number of commands that completed or raised
  raised,       \* index in log of the command that raised (0: none)
  log,          \* every remote command issued, in order, with the processor
                \* and the selection of the solver when it was issued
  bstart,       \* index in log where the current model build began
  db,           \* the solver database of the session
  calls,        \* number of invocations of pipe_plane_strain
  returned,     \* what each completed invocation returned
  frame         \* the driver's variables when pipe_plane_strain was entered

vars == <<nb, NUM, pc, ip, fp, iter, waiting, g, a, loc, ret, num_dof,
          max_stress, printed, mapdl, live, nlaunch, outstanding, ndone, raised,
          log, bstart, db, calls, returned, frame>>

---------------------------------------------------------------------------
(* Bounds of the model *)

\* the plate notebook is run with NUM in 0..MaxNum holes
MaxNum == 3
\* values an unrecorded solver result is drawn from: 0..MaxUnknown
MaxUnknown == 1

---------------------------------------------------------------------------
(* Parameter blocks *)

rad1 == 175
rad2 == 200
pressure == 100
e == 200000
nu == 30

LENGTH == 5000
WIDTH == 2500
DEPTH == 100
RADIUS == 500
\* E = 2e11 Pa, in GPa
E == 200
NU == 27
PRESSURE == 1000

\* esizes = np.logspace(1.4, 0, 20), in 1/1000
esizes ==
  << 25119, 21199, 17891, 15099, 12743, 10754, 9076, 7660, 6464, 5456,
     4604, 3886, 3279, 2768, 2336, 1971, 1664, 1404, 1185, 1000 >>

\* the output recorded for the sweep: "DOF: ...   #Stress: ... MPa"
RecordedDof ==
  << 56, 96, 114, 132, 156, 248, 288, 430, 500, 708,
     980, 1312, 1746, 2530, 3264, 4508, 6460, 8550, 12282, 16432 >>

RecordedStress ==
  << 70242, 72572, 72563, 72557, 72552, 73364, 73362, 73775, 73774, 74025,
     74193, 74313, 74404, 74532, 74578, 74650, 74724, 74760, 74812, 74840 >>

\* the module-level names of the pipe notebook after its parameter block
PipeGlobals == [rad1 |-> rad1, rad2 |-> rad2, pressure |-> pressure,
                e |-> e, nu |-> nu]

NoGlobals == [rad1 |-> -1, rad2 |-> -1, pressure |-> -1, e |-> -1, nu |-> -1]

---------------------------------------------------------------------------
(* Commands *)

Cmd(name, par) == [cmd |-> name, par |-> par]

\* variant: the database is not cleared
PipeResetNoClear ==
  << Cmd("prep7", <<>>) >>

\* variant: a new session is launched by every invocation
PipeResetRelaunch ==
  << Cmd("launch_mapdl", <<>>),
     Cmd("clear", <<>>),
     Cmd("prep7", <<>>) >>

\* pipe_plane_strain: "# reset mapdl"
PipeReset ==
  << Cmd("clear", <<>>),
     Cmd("prep7", <<>>) >>

\* pipe_plane_strain: element attribute, geometry, material, mesh controls
\* and mesh, components; G is the module namespace the body reads the free
\* name rad1 from
PipePreprocessing(G, e_, nu_, inn_radius, out_radius, AESIZE) ==
  << Cmd("et", <<1, "PLANE182", "kop3", 2>>),
     Cmd("pcirc", <<inn_radius, out_radius, "theta1", 0, "theta2", 90>>),
     Cmd("cm", <<"PIPE_PROFILE", "AREA">>),
     Cmd("mp", <<"EX", 1, e_>>),
     Cmd("mp", <<"PRXY", 1, nu_>>),
     Cmd("aesize", <<"ALL", AESIZE>>),
     Cmd("mshape", <<0, "2D">>),
     Cmd("mshkey", <<1>>),
     Cmd("cmsel", <<"S", "PIPE_PROFILE">>),
     Cmd("amesh", <<"ALL">>),
     Cmd("nsel", <<"S", "LOC", "X", 0>>),
     Cmd("cm", <<"X_FIXED", "NODES">>),
     Cmd("nsel", <<"S", "LOC", "Y", 0>>),
     Cmd("cm", <<"Y_FIXED", "NODES">>),
     Cmd("allsel", <<>>),
     Cmd("lsel", <<"S", "RADIUS", "vmin", G.rad1>>),
     Cmd("cm", <<"PRESSURE_EDGE", "LINE">>),
     Cmd("allsel", <<>>) >>

\* variant: the pressure load is applied only when it is not zero
PipeSolutionIfLoaded(press) ==
  << Cmd("slashsolu", <<>>),
     Cmd("antype", <<"STATIC", "NEW">>),
     Cmd("d", <<"X_FIXED", "UX", 0>>),
     Cmd("d", <<"Y_FIXED", "UY", 0>>),
     Cmd("csys", <<1>>) >>
  \o (IF press # 0 THEN << Cmd("sfl", <<"PRESSURE_EDGE", "PRES", press>>) >>
      ELSE << >>)
  \o
  << Cmd("allsel", <<>>),
     Cmd("solve", <<>>),
     Cmd("finish", <<>>) >>

\* variant: the model is solved before the pressure load is applied
PipeSolutionSolveFirst(press) ==
  << Cmd("slashsolu", <<>>),
     Cmd("antype", <<"STATIC", "NEW">>),
     Cmd("d", <<"X_FIXED", "UX", 0>>),
     Cmd("d", <<"Y_FIXED", "UY", 0>>),
     Cmd("csys", <<1>>),
     Cmd("allsel", <<>>),
     Cmd("solve", <<>>),
     Cmd("sfl", <<"PRESSURE_EDGE", "PRES", press>>),
     Cmd("finish", <<>>) >>

\* variant: the solution processor is not entered
PipeSolutionNoSlashsolu(press) ==
  << Cmd("antype", <<"STATIC", "NEW">>),
     Cmd("d", <<"X_FIXED", "UX", 0>>),
     Cmd("d", <<"Y_FIXED", "UY", 0>>),
     Cmd("csys", <<1>>),
     Cmd("sfl", <<"PRESSURE_EDGE", "PRES", press>>),
     Cmd("allsel", <<>>),
     Cmd("solve", <<>>),
     Cmd("finish", <<>>) >>

\* variant: the pressure edge is selected for the load and the selection is
\* not undone before the solve
PipeSolutionSelectsEdge(press) ==
  << Cmd("slashsolu", <<>>),
     Cmd("antype", <<"STATIC", "NEW">>),
     Cmd("d", <<"X_FIXED", "UX", 0>>),
     Cmd("d", <<"Y_FIXED", "UY", 0>>),
     Cmd("csys", <<1>>),
     Cmd("cmsel", <<"S", "PRESSURE_EDGE">>),
     Cmd("sfl", <<"PRESSURE_EDGE", "PRES", press>>),
     Cmd("solve", <<>>),
     Cmd("finish", <<>>) >>

\* pipe_plane_strain: solution controls, constraints, load, solve
PipeSolution(press) ==
  << Cmd("slashsolu", <<>>),
     Cmd("antype", <<"STATIC", "NEW">>),
     Cmd("d", <<"X_FIXED", "UX", 0>>),
     Cmd("d", <<"Y_FIXED", "UY", 0>>),
     Cmd("csys", <<1>>),
     Cmd("sfl", <<"PRESSURE_EDGE", "PRES", press>>),
     Cmd("allsel", <<>>),
     Cmd("solve", <<>>),
     Cmd("finish", <<>>) >>

\* pipe_plane_strain: post-processor and the two reads
PipePostprocessing ==
  << Cmd("post1", <<>>),
     Cmd("set", <<1, 1>>),
     Cmd("nodal_eqv_stress", <<>>),
     Cmd("nnum_all", <<>>) >>

\* the remote commands of pipe_plane_strain, in program order
PipeBody(G, e_, nu_, inn_radius, out_radius, press, AESIZE) ==
  PipeReset
  \o PipePreprocessing(G, e_, nu_, inn_radius, out_radius, AESIZE)
  \o PipeSolution(press)
  \o PipePostprocessing

\* the remote commands of the pipe notebook's cells before and after the
\* sweep cell
PipeLaunchCell == << Cmd("launch_mapdl", <<>>) >>

PipePlotCells ==
  << Cmd("allsel", <<"ALL">>),
     Cmd("eplot", <<>>),
     Cmd("post1", <<>>),
     Cmd("set", <<1, 1>>),
     Cmd("plot_nodal_displacement", <<"NORM">>),
     Cmd("plot_nodal_eqv_stress", <<>>),
     Cmd("exit", <<>>) >>

PipeScript == PipeLaunchCell \o PipePlotCells

\* position in PipeScript after which the sweep cell runs
SweepAt == Len(PipeLaunchCell)

\* variant: the holes are spaced LENGTH/NUM apart
PlateHolesOverNum(n) ==
  [i \in 1..n |->
     Cmd("cyl4", << <<i * LENGTH, n>>, <<WIDTH, 2>>, RADIUS, "", "", "",
                    2 * DEPTH >>)]

\* for i in range(1, NUM+1): cyl4(i*LENGTH/(NUM+1), WIDTH/2, RADIUS, '', '', '', 2*DEPTH)
\* a quotient is kept as <<numerator, denominator>>
PlateHoles(n) ==
  [i \in 1..n |->
     Cmd("cyl4", << <<i * LENGTH, n + 1>>, <<WIDTH, 2>>, RADIUS, "", "", "",
                    2 * DEPTH >>)]

PlateScript(n) ==
  << Cmd("launch_mapdl", <<>>),
     Cmd("clear", <<>>),
     Cmd("prep7", <<>>),
     Cmd("block", <<0, LENGTH, 0, WIDTH, 0, DEPTH>>) >>
  \o PlateHoles(n) \o
  << Cmd("vsbv", <<1, "all">>),
     Cmd("vplot", <<"all">>),
     Cmd("lesize", <<"ALL", 150, "layer1", 1>>),
     Cmd("mp", <<"ex", 1, E>>),
     Cmd("mp", <<"nuxy", 1, NU>>),
     Cmd("et", <<1, "SOLID186">>),
     Cmd("mshape", <<1, "3D">>),
     Cmd("mshkey", <<0>>),
     Cmd("vmesh", <<"all">>),
     Cmd("eplot", <<>>),
     Cmd("nsel", <<"s", "loc", "x", 0>>),
     Cmd("d", <<"all", "all", 0>>),
     Cmd("nsel", <<"s", "loc", "x", LENGTH>>),
     Cmd("sf", <<"all", "pres", PRESSURE>>),
     Cmd("allsel", <<>>),
     Cmd("finish", <<>>),
     Cmd("slashsolu", <<>>),
     Cmd("solve", <<>>),
     Cmd("finish", <<>>),
     Cmd("result", <<>>),
     Cmd("plot_principal_nodal_stress", <<0, "seqv">>),
     Cmd("exit", <<>>) >>

Script == IF nb = "plate" THEN PlateScript(NUM) ELSE PipeScript

Body == PipeBody(g, a.e, a.nu, a.inn_radius, a.out_radius, a.press, a.AESIZE)

---------------------------------------------------------------------------
(* The solver, as far as the notebooks rely on it *)

Queries == {"nodal_eqv_stress", "nnum_all", "result"}

Plots == {"vplot", "eplot", "plot_nodal_displacement", "plot_nodal_eqv_stress",
          "plot_principal_nodal_stress"}

Lifecycle == {"launch_mapdl", "exit"}

Selecting == {"cmsel", "nsel", "lsel"}

Meshing == {"amesh", "vmesh"}

\* the database of a fresh session, and after clear() ("reset mapdl")
FreshDb ==
  [routine |-> "begin", sel |-> "all", csys |-> 0,
   model |-> <<>>, mesh |-> <<>>, meshed |-> FALSE,
   solved |-> <<>>, hasResults |-> FALSE, rset |-> FALSE]

Routine(d, c) ==
  CASE c.cmd = "prep7" -> "prep7"
    [] c.cmd = "slashsolu" -> "solu"
    [] c.cmd = "post1" -> "post1"
    [] c.cmd = "finish" -> "begin"
    [] OTHER -> d.routine

Selection(d, c) ==
  CASE c.cmd = "allsel" -> "all"
    [] c.cmd \in Selecting -> "restricted"
    [] OTHER -> d.sel

\* the database after the solver has carried out command c
Apply(d, c) ==
  IF c.cmd \in {"clear", "launch_mapdl"} THEN FreshDb
  ELSE IF c.cmd \in Queries \cup Plots \cup Lifecycle THEN d
  ELSE LET m == Append(d.model, c) IN
       [d EXCEPT !.routine = Routine(d, c),
                 !.sel = Selection(d, c),
                 !.csys = IF c.cmd = "csys" THEN c.par[1] ELSE @,
                 !.model = m,
                 !.mesh = IF c.cmd \in Meshing THEN m ELSE @,
                 !.meshed = @ \/ c.cmd \in Meshing,
                 !.solved = IF c.cmd = "solve" THEN d.model ELSE @,
                 !.hasResults = @ \/ c.cmd = "solve",
                 !.rset = @ \/ c.cmd = "set"]

\* the model the recorded sweep solved in iteration i, and its mesh
RecordedBody(i) == PipeBody(PipeGlobals, e, nu, rad1, rad2, pressure, esizes[i])

PosOf(body, name) == CHOOSE k \in 1..Len(body) : body[k].cmd = name

RecordedModel(i) ==
  LET b == RecordedBody(i) IN SubSeq(b, 2, PosOf(b, "solve") - 1)

RecordedMesh(i) ==
  LET b == RecordedBody(i) IN SubSeq(b, 2, PosOf(b, "amesh"))

\* np.max(nodal_eqv_stress()) of a solved model: the recorded value for a
\* model of the recorded sweep, unknown otherwise
StressOf(d) ==
  IF \E i \in 1..Len(esizes) : d.solved = RecordedModel(i)
  THEN {RecordedStress[i] : i \in {j \in 1..Len(esizes) : d.solved = RecordedModel(j)}}
  ELSE 0..MaxUnknown

\* mesh.nnum_all.size: the number of nodes of the mesh in the database
NodesOf(d) ==
  IF \E i \in 1..Len(esizes) : d.mesh = RecordedMesh(i)
  THEN {RecordedDof[i] \div 2 : i \in {j \in 1..Len(esizes) : d.mesh = RecordedMesh(j)}}
  ELSE 0..MaxUnknown

\* what a command returns to the script
Results(d, c) ==
  CASE c.cmd = "nodal_eqv_stress" -> StressOf(d)
    [] c.cmd = "nnum_all" -> NodesOf(d)
    [] OTHER -> {0}

---------------------------------------------------------------------------
(* The scripts *)

NoArgs == [e |-> -1, nu |-> -1, inn_radius |-> -1, out_radius |-> -1,
           press |-> -1, AESIZE |-> -1]

NoLocals == [max_eqv_stress |-> -1, size |-> -1]

NoRet == [dof |-> -1, eqv_stress |-> -1]

NoFrame == [num_dof |-> <<>>, max_stress |-> <<>>, g |-> NoGlobals]

InitCommon ==
  /\ pc = "script" /\ ip = 1 /\ fp = 0 /\ iter = 0 /\ waiting = FALSE
  /\ g = NoGlobals /\ a = NoArgs /\ loc = NoLocals /\ ret = NoRet
  /\ num_dof = <<>> /\ max_stress = <<>> /\ printed = <<>>
  /\ mapdl = 0 /\ live = {} /\ nlaunch = 0
  /\ outstanding = {} /\ ndone = 0 /\ raised = 0 /\ log = <<>> /\ bstart = 1
  /\ db = FreshDb /\ calls = 0 /\ returned = <<>>
  /\ frame = NoFrame

Init ==
  /\ \/ nb = "pipe" /\ NUM = 0
     \/ nb = "plate" /\ NUM \in 0..MaxNum
  /\ InitCommon

\* the sweep cell is the next thing to run
SweepDue == nb = "pipe" /\ pc = "script" /\ ip = SweepAt + 1 /\ iter = 0

\* the command the script is at
Cur == IF pc = "fn" THEN Body[fp] ELSE Script[ip]

AtCommand ==
  \/ pc = "script" /\ ip <= Len(Script) /\ ~SweepDue
  \/ pc = "fn" /\ fp <= Len(Body)

\* variant: solve() is started in the background
BlocksExceptSolve(c) == c.cmd # "solve"

\* a client call returns only when the solver has answered
Blocks(c) == TRUE

\* variant: the failed command is tried again
OnRaiseRetry(p) == p

\* an exception is not caught anywhere: the run stops
OnRaise(p) == "halted"

\* variant: the function appends its DOF count to the module-level list
ModuleNumDofAppended(list, v) == Append(list, v)

\* the module-level num_dof after "num_dof = 2 * all_dof.size" in the
\* function: the assignment binds a local name of the function
ModuleNumDof(list, v) == list

\* variant: three degrees of freedom per node
DofOfThree(size) == 3 * size

\* num_dof = 2 * all_dof.size
DofOf(size) == 2 * size

\* variant: the sweep walks esizes from its last element
SweepArgsReversed(G, i) ==
  [e |-> G.e, nu |-> G.nu, inn_radius |-> G.rad1, out_radius |-> G.rad2,
   press |-> G.pressure, AESIZE |-> esizes[Len(esizes) + 1 - i]]

\* the element size of sweep iteration i: for esize in esizes
SweepArgs(G, i) ==
  [e |-> G.e, nu |-> G.nu, inn_radius |-> G.rad1, out_radius |-> G.rad2,
   press |-> G.pressure, AESIZE |-> esizes[i]]

Advance ==
  /\ ip' = IF pc = "script" THEN ip + 1 ELSE ip
  /\ fp' = IF pc = "fn" THEN fp + 1 ELSE fp

\* mapdl.<command>(...) is sent to the solver
Issue ==
  /\ pc \in {"script", "fn"} /\ ~waiting /\ AtCommand
  /\ log' = Append(log, [cmd |-> Cur.cmd, par |-> Cur.par, session |-> mapdl,
                         call |-> IF pc = "fn" THEN calls ELSE 0,
                         routine |-> db.routine, sel |-> db.sel])
  /\ outstanding' = outstanding \cup {Len(log) + 1}
  /\ waiting' = Blocks(Cur)
  /\ IF Blocks(Cur) THEN UNCHANGED <<ip, fp>> ELSE Advance
  /\ UNCHANGED <<frame, nb, NUM, pc, iter, g, a, loc, ret, num_dof, max_stress,
                 printed, mapdl, live, nlaunch, ndone, raised, bstart, db,
                 calls, returned>>

\* the solver has carried the command out and the call returns
Complete ==
  \E k \in outstanding : \E r \in Results(db, log[k]) :
    /\ db' = Apply(db, Cmd(log[k].cmd, log[k].par))
    /\ nlaunch' = IF log[k].cmd = "launch_mapdl" THEN nlaunch + 1 ELSE nlaunch
    /\ mapdl' = IF log[k].cmd = "launch_mapdl" THEN nlaunch + 1 ELSE mapdl
    /\ live' = CASE log[k].cmd = "launch_mapdl" -> live \cup {nlaunch + 1}
                 [] log[k].cmd = "exit" -> live \ {log[k].session}
                 [] OTHER -> live
    /\ loc' = CASE log[k].cmd = "nodal_eqv_stress" -> [loc EXCEPT !.max_eqv_stress = r]
                [] log[k].cmd = "nnum_all" -> [loc EXCEPT !.size = r]
                [] OTHER -> loc
    /\ outstanding' = outstanding \ {k}
    /\ ndone' = ndone + 1
    /\ waiting' = FALSE
    /\ IF waiting THEN Advance ELSE UNCHANGED <<ip, fp>>
    /\ UNCHANGED <<frame, nb, NUM, pc, iter, g, a, ret, num_dof, max_stress, printed,
                   raised, log, bstart, calls, returned>>

\* the command raises: the exception propagates out of the cell
Fail ==
  \E k \in outstanding :
    /\ pc' = OnRaise(pc)
    /\ raised' = k
    /\ outstanding' = outstanding \ {k}
    /\ ndone' = ndone + 1
    /\ waiting' = FALSE
    /\ UNCHANGED <<frame, nb, NUM, ip, fp, iter, g, a, loc, ret, num_dof, max_stress,
                   printed, mapdl, live, nlaunch, log, bstart, db, calls,
                   returned>>

\* the parameter block and the empty result lists of the sweep cell
DefineParameters ==
  /\ SweepDue /\ ~waiting
  /\ g' = PipeGlobals
  /\ num_dof' = <<>> /\ max_stress' = <<>>
  /\ iter' = 1
  /\ pc' = "for"
  /\ UNCHANGED <<frame, nb, NUM, ip, fp, waiting, a, loc, ret, printed, mapdl, live,
                 nlaunch, outstanding, ndone, raised, log, bstart, db, calls,
                 returned>>

\* pipe_plane_strain is entered with arguments args
Enter(args) ==
  /\ a' = args
  /\ loc' = NoLocals
  /\ fp' = 1
  /\ calls' = calls + 1
  /\ bstart' = Len(log) + 1
  /\ frame' = [num_dof |-> num_dof, max_stress |-> max_stress, g |-> g]
  /\ pc' = "fn"

\* for esize in esizes: dof, eqv_stress = pipe_plane_strain(...)
ForNext ==
  /\ pc = "for" /\ iter <= Len(esizes)
  /\ Enter(SweepArgs(g, iter))
  /\ UNCHANGED <<nb, NUM, ip, iter, waiting, g, ret, num_dof, max_stress,
                 printed, mapdl, live, nlaunch, outstanding, ndone, raised,
                 log, db, returned>>

\* esizes is exhausted: the cell ends
ForEnd ==
  /\ pc = "for" /\ iter > Len(esizes)
  /\ pc' = "plot"
  /\ UNCHANGED <<frame, nb, NUM, ip, fp, iter, waiting, g, a, loc, ret, num_dof,
                 max_stress, printed, mapdl, live, nlaunch, outstanding, ndone,
                 raised, log, bstart, db, calls, returned>>

\* return num_dof, max_eqv_stress
Return ==
  /\ pc = "fn" /\ fp > Len(Body) /\ ~waiting
  /\ ret' = [dof |-> DofOf(loc.size), eqv_stress |-> loc.max_eqv_stress]
  /\ returned' = Append(returned,
                        [esize |-> a.AESIZE, dof |-> DofOf(loc.size),
                         eqv_stress |-> loc.max_eqv_stress,
                         nodes |-> loc.size, session |-> mapdl])
  /\ num_dof' = ModuleNumDof(num_dof, DofOf(loc.size))
  /\ pc' = IF nb = "fn" THEN "done" ELSE "append_dof"
  /\ UNCHANGED <<frame, nb, NUM, ip, fp, iter, waiting, g, a, loc,
                 max_stress, printed, mapdl, live, nlaunch, outstanding, ndone,
                 raised, log, bstart, db, calls>>

\* num_dof.append(dof)
AppendDof ==
  /\ pc = "append_dof"
  /\ num_dof' = Append(num_dof, ret.dof)
  /\ pc' = "append_stress"
  /\ UNCHANGED <<frame, nb, NUM, ip, fp, iter, waiting, g, a, loc, ret, max_stress,
                 printed, mapdl, live, nlaunch, outstanding, ndone, raised,
                 log, bstart, db, calls, returned>>

\* max_stress.append(eqv_stress)
AppendStress ==
  /\ pc = "append_stress"
  /\ max_stress' = Append(max_stress, ret.eqv_stress)
  /\ pc' = "print"
  /\ UNCHANGED <<frame, nb, NUM, ip, fp, iter, waiting, g, a, loc, ret, num_dof,
                 printed, mapdl, live, nlaunch, outstanding, ndone, raised,
                 log, bstart, db, calls, returned>>

\* print(f"DOF: {dof:5d}   #Stress: {eqv_stress:.2f} MPa"), next esize
PrintLine ==
  /\ pc = "print"
  /\ printed' = Append(printed, <<ret.dof, ret.eqv_stress>>)
  /\ iter' = iter + 1
  /\ pc' = "for"
  /\ UNCHANGED <<frame, nb, NUM, ip, fp, waiting, g, a, loc, ret, num_dof,
                 max_stress, mapdl, live, nlaunch, outstanding, ndone, raised,
                 log, bstart, db, calls, returned>>

\* the convergence plot of num_dof against max_stress (no remote command)
PlotConvergence ==
  /\ pc = "plot"
  /\ pc' = "script"
  /\ UNCHANGED <<frame, nb, NUM, ip, fp, iter, waiting, g, a, loc, ret, num_dof,
                 max_stress, printed, mapdl, live, nlaunch, outstanding, ndone,
                 raised, log, bstart, db, calls, returned>>

\* the last cell has run
Finish ==
  /\ pc = "script" /\ ip > Len(Script) /\ ~waiting
  /\ pc' = "done"
  /\ UNCHANGED <<frame, nb, NUM, ip, fp, iter, waiting, g, a, loc, ret, num_dof,
                 max_stress, printed, mapdl, live, nlaunch, outstanding, ndone,
                 raised, log, bstart, db, calls, returned>>

Next ==
  \/ Issue \/ Complete \/ Fail
  \/ DefineParameters \/ ForNext \/ ForEnd
  \/ Return \/ AppendDof \/ AppendStress \/ PrintLine
  \/ PlotConvergence \/ Finish

Spec == Init /\ [][Next]_vars

---------------------------------------------------------------------------
(* One call of pipe_plane_strain with arbitrary arguments, in a live      *)
(* session whose database is fresh or left over from an earlier model     *)

EVals == {e, 70000}
NuVals == {nu, 33}
InnVals == {rad1, 100}
OutVals == {rad2, 250}
PressVals == {pressure, 0}
SizeVals == {esizes[1], esizes[Len(esizes)]}

ArgTuples ==
  [e : EVals, nu : NuVals, inn_radius : InnVals, out_radius : OutVals,
   press : PressVals, AESIZE : SizeVals]

RECURSIVE ApplyAll(_, _)
ApplyAll(d, cmds) ==
  IF cmds = <<>> THEN d ELSE ApplyAll(Apply(d, Head(cmds)), Tail(cmds))

LeftOverDb == ApplyAll(FreshDb, RecordedBody(1))

InitFn ==
  /\ nb = "fn" /\ NUM = 0
  /\ pc = "call" /\ ip = 1 /\ fp = 0 /\ iter = 0 /\ waiting = FALSE
  /\ g \in {[PipeGlobals EXCEPT !.rad1 = r] : r \in InnVals}
  /\ a \in ArgTuples
  /\ loc = NoLocals /\ ret = NoRet
  /\ num_dof = <<>> /\ max_stress = <<>> /\ printed = <<>>
  /\ mapdl = 1 /\ live = {1} /\ nlaunch = 1
  /\ outstanding = {} /\ ndone = 0 /\ raised = 0 /\ log = <<>> /\ bstart = 1
  /\ db \in {FreshDb, LeftOverDb}
  /\ calls = 0 /\ returned = <<>>
  /\ frame = NoFrame

\* pipe_plane_strain(e, nu, inn_radius, out_radius, press, AESIZE)
CallFn ==
  /\ pc = "call"
  /\ Enter(a)
  /\ UNCHANGED <<nb, NUM, ip, iter, waiting, g, ret, num_dof, max_stress,
                 printed, mapdl, live, nlaunch, outstanding, ndone, raised,
                 log, db, returned>>

NextFn == CallFn \/ Issue \/ Complete \/ Fail \/ Return

SpecFn == InitFn /\ [][NextFn]_vars

---------------------------------------------------------------------------
(* Helpers of the properties *)

Count(name) == Cardinality({k \in 1..Len(log) : log[k].cmd = name})

\* the log indices of the commands of invocation c of pipe_plane_strain
CallIdx(c) == {k \in 1..Len(log) : log[k].call = c}

RunOver == pc \in {"done", "halted"}

---------------------------------------------------------------------------
(* C1: in a run that reaches its last cell launch_mapdl() is called exactly *)
(* once and is the first command, mapdl.exit() is called exactly once and   *)
(* is the last command, and in the pipe notebook all 20 invocations of      *)
(* pipe_plane_strain issue their commands to that one session.              *)
C1_OneSession ==
  /\ \A k \in 1..Len(log) :
       /\ log[k].cmd = "launch_mapdl" => k = 1
       /\ log[k].cmd = "exit" => k = Len(log)
       /\ k > 1 => log[k].session = 1
  /\ pc = "done" =>
       /\ Count("launch_mapdl") = 1 /\ log[1].cmd = "launch_mapdl"
       /\ Count("exit") = 1 /\ log[Len(log)].cmd = "exit"
       /\ nlaunch = 1
       /\ nb = "pipe" =>
            /\ calls = Len(esizes) /\ Len(returned) = Len(esizes)
            /\ \A k \in 1..Len(returned) : returned[k].session = 1

C1_Witness ==
  pc = "done" /\ nb = "pipe" /\ calls = Len(esizes) /\ Count("exit") = 1

---------------------------------------------------------------------------
(* C2: a run that has launched the solver has, when it is over (last cell  *)
(* run, or halted by an exception), called mapdl.exit(): no solver process *)
(* of the run is left.                                                     *)
C2_TornDownAtEnd ==
  (RunOver /\ nlaunch > 0) => (Count("exit") = 1 /\ live = {})

---------------------------------------------------------------------------
(* C3: when a remote command raises the run halts: the command that raised *)
(* is the last one of the log (nothing is issued after it, and it is not   *)
(* issued again), nothing is outstanding, and num_dof and max_stress hold  *)
(* exactly the results of the iterations completed before the failure.     *)
C3_FailureHalts ==
  raised # 0 =>
    /\ pc = "halted"
    /\ raised = Len(log)
    /\ outstanding = {}
    /\ Len(num_dof) = Len(returned) /\ Len(max_stress) = Len(returned)
    /\ \A i \in 1..Len(returned) :
         num_dof[i] = returned[i].dof /\ max_stress[i] = returned[i].eqv_stress
    /\ log[raised].call > 0 =>
         /\ Len(num_dof) = log[raised].call - 1
         /\ Len(max_stress) = log[raised].call - 1

C3_Witness ==
  /\ raised # 0 /\ nb = "pipe"
  /\ log[raised].cmd = "solve" /\ log[raised].call = 3
  /\ Len(num_dof) = 2 /\ Len(max_stress) = 2

---------------------------------------------------------------------------
(* C4: the sweep invokes pipe_plane_strain once per element of esizes, in  *)
(* order; the i-th entries of num_dof and max_stress are what the i-th     *)
(* invocation returned; at an iteration boundary both lists have as many   *)
(* entries as iterations completed, and Len(esizes) when the sweep is over *)
SweepOver == nb = "pipe" /\ (pc \in {"plot", "done"} \/ (pc = "script" /\ iter > 0))

C4_SweepCollects ==
  nb = "pipe" =>
    /\ calls <= Len(esizes)
    /\ pc = "fn" => a.AESIZE = esizes[calls]
    /\ \A k \in 1..Len(returned) : returned[k].esize = esizes[k]
    /\ \A i \in 1..Len(num_dof) : num_dof[i] = returned[i].dof
    /\ \A i \in 1..Len(max_stress) : max_stress[i] = returned[i].eqv_stress
    /\ pc = "for" =>
         /\ Len(num_dof) = iter - 1 /\ Len(max_stress) = iter - 1
         /\ calls = iter - 1 /\ Len(returned) = iter - 1
    /\ SweepOver =>
         /\ Len(num_dof) = Len(esizes) /\ Len(max_stress) = Len(esizes)
         /\ calls = Len(esizes)

C4_Witness ==
  /\ nb = "pipe" /\ pc = "plot"
  /\ Len(num_dof) = Len(esizes) /\ num_dof[Len(esizes)] = returned[Len(esizes)].dof

---------------------------------------------------------------------------
(* C5: the names of the commands pipe_plane_strain issues, and their       *)
(* order, are the same for every argument tuple: the commands of a call    *)
(* with any arguments are, name by name, those of the call with any other  *)
(* argument tuple, and a call that returns has issued all of them.         *)
Names(cmds) == [k \in 1..Len(cmds) |-> cmds[k].cmd]

NamesFor(t) ==
  Names(PipeBody(g, t.e, t.nu, t.inn_radius, t.out_radius, t.press, t.AESIZE))

C5_FixedSequence ==
  \A t \in ArgTuples :
    LET n == NamesFor(t) IN
    /\ Len(log) <= Len(n)
    /\ \A k \in 1..Len(log) : log[k].cmd = n[k]
    /\ pc = "done" => Len(log) = Len(n)

C5_Witness ==
  /\ pc = "done" /\ Len(returned) = 1
  /\ a.press = 0 /\ a.AESIZE = esizes[Len(esizes)] /\ a.inn_radius # g.rad1

---------------------------------------------------------------------------
(* C6: at most one remote command is outstanding, and it is the last one   *)
(* issued: every earlier command has completed; nodal_eqv_stress is issued *)
(* only after the solve of the same invocation has completed; an iteration *)
(* of the sweep starts only after the one before has returned.             *)
C6_Sequential ==
  /\ Cardinality(outstanding) <= 1
  /\ outstanding \subseteq {Len(log)}
  /\ ndone = Len(log) - Cardinality(outstanding)
  /\ \A k \in 1..Len(log) :
       log[k].cmd = "nodal_eqv_stress" =>
         \E j \in 1..(k - 1) :
           /\ log[j].cmd = "solve" /\ log[j].call = log[k].call
           /\ j \notin outstanding /\ j # raised
  /\ Len(returned) <= calls /\ calls <= Len(returned) + 1
  /\ pc = "fn" => Len(returned) = calls - 1

C6_Witness ==
  /\ nb = "pipe" /\ calls = 2 /\ outstanding = {Len(log)}
  /\ log[Len(log)].cmd = "nodal_eqv_stress"

---------------------------------------------------------------------------
(* C7: in every model build the steps come in the order geometry, material *)
(* properties and mesh controls, mesh generation, constraints and loads,   *)
(* solve, result queries and result plots, all after the launch of the     *)
(* session; solve is issued at most once in a build and exactly once in a  *)
(* finished one, after a mesh generation.                                  *)
Step(name) ==
  CASE name \in {"pcirc", "block", "cyl4", "vsbv"} -> 1
    [] name \in {"mp", "aesize", "lesize", "mshape", "mshkey"} -> 2
    [] name \in Meshing -> 3
    [] name \in {"d", "sfl", "sf"} -> 4
    [] name = "solve" -> 5
    [] name \in {"nodal_eqv_stress", "result", "plot_nodal_displacement",
                 "plot_nodal_eqv_stress", "plot_principal_nodal_stress"} -> 6
    [] OTHER -> 0

\* the log indices of the current model build
BuildIdx == bstart..Len(log)

Solves == {k \in BuildIdx : log[k].cmd = "solve"}

BuildFinished ==
  \/ pc \in {"append_dof", "append_stress", "print", "for", "plot", "done"}
  \/ pc = "script" /\ iter > 0

C7_WorkflowOrder ==
  /\ Len(log) > 0 => (log[1].cmd = "launch_mapdl" \/ nb = "fn")
  /\ \A i, j \in BuildIdx :
       (i < j /\ Step(log[i].cmd) # 0 /\ Step(log[j].cmd) # 0)
         => Step(log[i].cmd) <= Step(log[j].cmd)
  /\ Cardinality(Solves) <= 1
  /\ \A k \in Solves : \E m \in bstart..(k - 1) : log[m].cmd \in Meshing
  /\ (BuildFinished /\ calls > 0) => Cardinality(Solves) = 1
  /\ (pc = "done" /\ nb = "plate") => Cardinality(Solves) = 1

C7_Witness ==
  /\ pc = "done" /\ nb = "plate" /\ NUM = 2
  /\ Cardinality(Solves) = 1 /\ Count("plot_principal_nodal_stress") = 1

---------------------------------------------------------------------------
(* C8 as stated: the peak stresses collected in max_stress are monotone    *)
(* over the sweep.                                                         *)
C8_Monotone ==
  \/ \A i \in 1..(Len(max_stress) - 1) : max_stress[i] <= max_stress[i + 1]
  \/ \A i \in 1..(Len(max_stress) - 1) : max_stress[i] >= max_stress[i + 1]

(* C8 as amended: the peak stresses collected in max_stress never fall by  *)
(* more than 0.09 MPa from one iteration to the next, no entry exceeds a   *)
(* later entry by more than 0.20 MPa, and the entries increase strictly    *)
(* from the 9th iteration on; they are the stresses of the printed lines.  *)
C8_MonotoneUpToDips ==
  /\ \A i \in 1..(Len(max_stress) - 1) : max_stress[i] <= max_stress[i + 1] + 9
  /\ \A i, j \in 1..Len(max_stress) : i < j => max_stress[i] <= max_stress[j] + 20
  /\ \A i \in 9..(Len(max_stress) - 1) : max_stress[i] < max_stress[i + 1]
  /\ \A i \in 1..Len(printed) : printed[i][2] = max_stress[i]

C8_Witness ==
  /\ Len(max_stress) = Len(esizes) /\ max_stress[3] < max_stress[2]
  /\ max_stress[Len(esizes)] = 74840

---------------------------------------------------------------------------
(* C9: clear() and prep7() are the first two commands of every invocation  *)
(* of pipe_plane_strain; the model that is solved consists of exactly the  *)
(* commands this invocation issued after its clear(), for the arguments of *)
(* this invocation, whatever ran before in the session.                    *)
FromLog(lo, hi) == [k \in 1..(hi - lo + 1) |-> Cmd(log[lo + k - 1].cmd, log[lo + k - 1].par)]

\* the model a fresh session solves for the arguments of the invocation
ModelFor(G, t) ==
  << Cmd("prep7", <<>>) >>
  \o PipePreprocessing(G, t.e, t.nu, t.inn_radius, t.out_radius, t.AESIZE)
  \o << Cmd("slashsolu", <<>>),
        Cmd("antype", <<"STATIC", "NEW">>),
        Cmd("d", <<"X_FIXED", "UX", 0>>),
        Cmd("d", <<"Y_FIXED", "UY", 0>>),
        Cmd("csys", <<1>>),
        Cmd("sfl", <<"PRESSURE_EDGE", "PRES", t.press>>),
        Cmd("allsel", <<>>) >>

SolveDone(c) ==
  \E k \in CallIdx(c) : log[k].cmd = "solve" /\ k \notin outstanding /\ k # raised

C9_ResetFirst ==
  \A c \in 1..calls :
    LET idx == CallIdx(c) IN
    /\ \A k \in idx :
         /\ (k = 1 \/ log[k - 1].call # c) => log[k].cmd = "clear"
         /\ (k > 1 /\ log[k - 1].call = c /\ (k = 2 \/ log[k - 2].call # c))
              => log[k].cmd = "prep7" /\ log[k - 1].cmd = "clear"
    /\ (c = calls /\ pc = "fn" /\ SolveDone(c)) =>
         /\ db.hasResults
         /\ db.solved = ModelFor(g, a)
         /\ \E k \in idx : log[k].cmd = "solve" /\ db.solved = FromLog(bstart + 1, k - 1)

C9_Witness ==
  /\ nb = "pipe" /\ pc = "fn" /\ calls = 2 /\ SolveDone(2)
  /\ db.solved = ModelFor(g, a) /\ Len(returned) = 1

---------------------------------------------------------------------------
(* C10: the DOF count an invocation returns is twice the number of nodes   *)
(* of the mesh it built, read after its solve; every entry of num_dof is a *)
(* non-negative even integer and is the DOF count of the recorded output.  *)
NnumRead(c) ==
  \E k \in CallIdx(c) : log[k].cmd = "nnum_all" /\ k \notin outstanding /\ k # raised

C10_TwiceTheNodes ==
  /\ \A k \in 1..Len(returned) :
       /\ returned[k].dof = 2 * returned[k].nodes
       /\ returned[k].nodes >= 0
  /\ \A i \in 1..Len(num_dof) :
       /\ num_dof[i] >= 0 /\ num_dof[i] % 2 = 0
       /\ nb = "pipe" => num_dof[i] = RecordedDof[i]
  /\ \A k \in 1..Len(log) :
       log[k].cmd = "nnum_all" =>
         \E j \in 1..(k - 1) :
           /\ log[j].cmd = "solve" /\ log[j].call = log[k].call
           /\ j \notin outstanding /\ j # raised
  /\ (pc = "fn" /\ NnumRead(calls)) =>
       /\ loc.size \in NodesOf(db)
       /\ db.meshed
       /\ \E m \in BuildIdx : log[m].cmd = "amesh" /\ db.mesh = FromLog(bstart + 1, m)

C10_Witness ==
  /\ nb = "pipe" /\ Len(num_dof) = Len(esizes)
  /\ num_dof[3] = 114 /\ returned[3].nodes = 57

---------------------------------------------------------------------------
(* C11: in pipe_plane_strain et, pcirc, mp, aesize, mshape, mshkey and     *)
(* amesh are issued while the pre-processor is active, antype, d, sfl and  *)
(* solve while the solution processor is active, set and nodal_eqv_stress  *)
(* while the post-processor is active, and finish is issued between solve  *)
(* and post1.                                                              *)
InPrep == {"et", "pcirc", "mp", "aesize", "mshape", "mshkey", "amesh"}

InSolu == {"antype", "d", "sfl", "solve"}

InPost == {"set", "nodal_eqv_stress"}

C11_ProcessorProtocol ==
  \A k \in 1..Len(log) :
    log[k].call > 0 =>
      /\ log[k].cmd \in InPrep => log[k].routine = "prep7"
      /\ log[k].cmd \in InSolu => log[k].routine = "solu"
      /\ log[k].cmd \in InPost => log[k].routine = "post1"
      /\ log[k].cmd = "post1" =>
           \E s, f \in CallIdx(log[k].call) :
             /\ s < f /\ f < k
             /\ log[s].cmd = "solve" /\ log[f].cmd = "finish"
      /\ log[k].cmd = "finish" =>
           \E s \in CallIdx(log[k].call) : s < k /\ log[s].cmd = "solve"

C11_Witness ==
  /\ nb = "pipe" /\ pc = "fn" /\ calls = 2
  /\ log[Len(log)].cmd = "nodal_eqv_stress" /\ log[Len(log)].routine = "post1"
  /\ \E k \in CallIdx(2) : log[k].cmd = "solve" /\ log[k].routine = "solu"
  /\ \E k \in CallIdx(2) : log[k].cmd = "amesh" /\ log[k].routine = "prep7"

---------------------------------------------------------------------------
(* C12: every solve() of either notebook is issued with the whole model    *)
(* selected: an allsel() precedes it in its build, and no cmsel, nsel or   *)
(* lsel is issued between the last such allsel() and the solve().          *)
Restricting(k) == log[k].cmd \in Selecting /\ log[k].par[1] \in {"S", "s"}

C12_AllSelectedAtSolve ==
  \A k \in 1..Len(log) :
    log[k].cmd = "solve" =>
      /\ log[k].sel = "all"
      /\ \E m \in 1..(k - 1) :
           /\ log[m].cmd = "allsel" /\ log[m].call = log[k].call
           /\ \A j \in (m + 1)..(k - 1) : ~Restricting(j)
      /\ \E j \in 1..(k - 1) : Restricting(j) /\ log[j].call = log[k].call

C12_Witness ==
  /\ nb = "plate" /\ NUM = 1 /\ pc = "done"
  /\ \E k \in 1..Len(log) : log[k].cmd = "solve" /\ log[k].sel = "all"
  /\ \E k \in 1..Len(log) : Restricting(k)

---------------------------------------------------------------------------
(* C13: the plots of Step 4 of the pipe notebook show the model of the     *)
(* last sweep iteration: the cells after the sweep issue no clear(),       *)
(* geometry, material, mesh, load or solve command, and when a plot is     *)
(* issued the mesh and the solved model in the database are those the      *)
(* 20th invocation built, with the last element of esizes, which is the    *)
(* smallest of esizes.                                                     *)
Step4Plots == {"eplot", "plot_nodal_displacement", "plot_nodal_eqv_stress"}

LastArgs ==
  [e |-> g.e, nu |-> g.nu, inn_radius |-> g.rad1, out_radius |-> g.rad2,
   press |-> g.pressure, AESIZE |-> esizes[Len(esizes)]]

LastCall == CallIdx(Len(esizes))

C13_PlotsLastIteration ==
  nb = "pipe" =>
    /\ \A i \in 1..(Len(esizes) - 1) : esizes[Len(esizes)] < esizes[i]
    /\ \A k \in 2..Len(log) :
         log[k].call = 0 =>
           /\ log[k].cmd # "clear" /\ Step(log[k].cmd) \notin 1..5
           /\ Len(returned) = Len(esizes)
           /\ \A j \in LastCall : j < k
    /\ \A k \in outstanding :
         log[k].cmd \in Step4Plots =>
           /\ calls = Len(esizes)
           /\ returned[Len(esizes)].esize = esizes[Len(esizes)]
           /\ db.meshed /\ db.hasResults
           /\ db.solved = ModelFor(g, LastArgs)
           /\ \E c, m \in LastCall :
                /\ log[c].cmd = "clear" /\ log[m].cmd = "amesh"
                /\ db.mesh = FromLog(c + 1, m)
           /\ \E q \in 1..Len(db.mesh) :
                db.mesh[q].cmd = "aesize" /\ db.mesh[q].par[2] = esizes[Len(esizes)]

C13_Witness ==
  /\ nb = "pipe" /\ outstanding = {Len(log)}
  /\ log[Len(log)].cmd = "plot_nodal_eqv_stress"
  /\ Count("eplot") = 1 /\ Count("plot_nodal_displacement") = 1
  /\ db.solved = ModelFor(g, LastArgs)

---------------------------------------------------------------------------
(* C14: for every number of holes NUM >= 0 the plate notebook issues       *)
(* block as the first command that creates anything in the cleared         *)
(* database, then exactly NUM cyl4 commands, the i-th with centre          *)
(* x = i*LENGTH/(NUM+1) and y = WIDTH/2, and only then vsbv(1, 'all'); the *)
(* centres are pairwise distinct and lie strictly between 0 and LENGTH.    *)
Holes == {k \in 1..Len(log) : log[k].cmd = "cyl4"}

\* quotients <<numerator, denominator>> with positive denominators
QEq(p, q) == p[1] * q[2] = q[1] * p[2]

QLess(p, q) == p[1] * q[2] < q[1] * p[2]

\* the position of block(...) among the commands of the plate notebook
BlockAt == PosOf(PlateScript(0), "block")

C14_ParametricHoles ==
  nb = "plate" =>
    /\ LENGTH > 0
    /\ Len(log) >= BlockAt =>
         /\ log[BlockAt - 2].cmd = "clear" /\ log[BlockAt - 1].cmd = "prep7"
         /\ log[BlockAt].cmd = "block"
         /\ log[BlockAt].par = <<0, LENGTH, 0, WIDTH, 0, DEPTH>>
    /\ outstanding = {BlockAt} => db.model = << Cmd("prep7", <<>>) >>
    /\ Holes \subseteq (BlockAt + 1)..(BlockAt + NUM)
    /\ \A i \in 1..NUM :
         BlockAt + i <= Len(log) =>
           /\ log[BlockAt + i].cmd = "cyl4"
           /\ QEq(log[BlockAt + i].par[1], <<i * LENGTH, NUM + 1>>)
           /\ QEq(log[BlockAt + i].par[2], <<WIDTH, 2>>)
           /\ QLess(<<0, 1>>, log[BlockAt + i].par[1])
           /\ QLess(log[BlockAt + i].par[1], <<LENGTH, 1>>)
    /\ \A i, j \in Holes : i # j => ~QEq(log[i].par[1], log[j].par[1])
    /\ \A k \in 1..Len(log) :
         log[k].cmd = "vsbv" =>
           /\ k = BlockAt + NUM + 1
           /\ log[k].par = <<1, "all">>
           /\ Cardinality(Holes) = NUM

C14_Witness ==
  /\ nb = "plate" /\ NUM = 3 /\ Count("vsbv") = 1
  /\ Cardinality(Holes) = 3
  /\ log[BlockAt + 2].par[1] = <<2 * LENGTH, 4>>

C14_WitnessNoHoles ==
  nb = "plate" /\ NUM = 0 /\ Count("vsbv") = 1 /\ Holes = {}

---------------------------------------------------------------------------
(* C15: an invocation of pipe_plane_strain leaves num_dof, max_stress and  *)
(* the parameters e, nu, rad1, rad2, pressure as they were when it was     *)
(* entered; the lists change only by the driver's two appends; every       *)
(* invocation of the sweep gets the same e, nu, radii and pressure and an  *)
(* element size no other invocation gets.                                  *)
InInvocation ==
  \/ pc \in {"fn", "append_dof"}
  \/ pc = "halted" /\ raised # 0 /\ log[raised].call > 0

C15_DriverFrame ==
  nb = "pipe" =>
    /\ InInvocation =>
         /\ num_dof = frame.num_dof /\ max_stress = frame.max_stress
         /\ g = frame.g
    /\ pc = "append_stress" =>
         /\ num_dof = Append(frame.num_dof, ret.dof)
         /\ max_stress = frame.max_stress /\ g = frame.g
    /\ pc = "print" =>
         /\ num_dof = Append(frame.num_dof, ret.dof)
         /\ max_stress = Append(frame.max_stress, ret.eqv_stress)
         /\ g = frame.g
    /\ calls > 0 =>
         /\ g = PipeGlobals
         /\ a.e = e /\ a.nu = nu /\ a.inn_radius = rad1 /\ a.out_radius = rad2
         /\ a.press = pressure
         /\ a.AESIZE = esizes[calls]
         /\ \A c \in 1..Len(esizes) : c # calls => esizes[c] # a.AESIZE

C15_Witness ==
  /\ nb = "pipe" /\ pc = "append_dof" /\ calls = 2
  /\ frame.num_dof = << RecordedDof[1] >> /\ num_dof = frame.num_dof
  /\ ret.dof = RecordedDof[2]

====
